---- MODULE Spec2Model ----
(***************************************************************************)
(* Model of src/main.py: a FastAPI task service.  An in-memory list,       *)
(* task_db, is read and changed by six route handlers, each behind the     *)
(* validate_api_key dependency.                                            *)
(*                                                                         *)
(* Python values are modelled as follows.                                  *)
(*   str            a sequence of one-character strings                    *)
(*   Optional[T]    None == <<>>, a value v == <<v>>  (Some(v))            *)
(*   dict (task)    a record with the dict's four keys                     *)
(*   list           a sequence                                             *)
(***************************************************************************)
EXTENDS Integers, Sequences, FiniteSets, TLC

VARIABLES
    task_db,       \* main.py:45  the list of task dicts
    request,       \* the request served last (one request at a time)
    response,      \* the response it got
    ever_ids,      \* history: every task_id that has been in task_db
    created_run,   \* history: the ids assigned by create since the last delete
    \* requests served by concurrent threads (SpecConc): task_db is a list of
    \* references to dict objects
    db_refs,       \* main.py:45  task_db as the list of its dicts' addresses
    heap,          \* the dict at each address, NoTask where there is none
    pc,            \* per thread: the statement its handler is at
    thread_req,    \* per thread: the request it serves or served last
    thread_ref,    \* per thread: new_task / existing_task / task, 0 if unset
    thread_resp    \* per thread: the response of its last finished request

seq_vars == <<task_db, request, response, ever_ids, created_run>>
conc_vars == <<db_refs, heap, pc, thread_req, thread_ref, thread_resp>>
vars == <<seq_vars, conc_vars>>

----------------------------------------------------------------------------
(* Bounds of the model *)

MaxTasks == 2      \* create is not served when task_db holds this many tasks
MaxId == 3         \* create is not served when it would assign a larger id
NumThreads == 2    \* handler threads that run at the same time

----------------------------------------------------------------------------
(* Python values *)

None == <<>>
Some(v) == <<v>>
Absent == <<>>     \* a JSON field that the body does not carry

\* str.strip() with no argument removes these from both ends
Whitespace == {" ", "\t", "\n", "\r"}

RECURSIVE lstrip(_)
lstrip(s) ==
    IF s # <<>> /\ Head(s) \in Whitespace THEN lstrip(Tail(s)) ELSE s

RECURSIVE rstrip(_)
rstrip(s) ==
    IF s # <<>> /\ s[Len(s)] \in Whitespace
    THEN rstrip(SubSeq(s, 1, Len(s) - 1))
    ELSE s

strip(s) == rstrip(lstrip(s))

\* truth value of a str: "not s" is true exactly for the empty string
Truthy(s) == s # <<>>

Max(S) == CHOOSE m \in S : \A x \in S : x <= m
Min(S) == CHOOSE m \in S : \A x \in S : m <= x

----------------------------------------------------------------------------
(* Configuration and the seeded store *)

\* main.py:19-21  the secret from the environment; start-up fails when it is
\* unset or empty, so it is some non-empty string
API_KEY == <<"k", "e", "y">>

\* a credential that is not the secret
WRONG_KEY == <<"b", "a", "d">>

SeedTitle ==
    <<"L","a","b","o","r","a","t","o","r","y"," ","A","c","t","i","v","i","t","y">>
SeedDesc ==
    <<"C","r","e","a","t","e"," ","L","a","b"," ","A","c","t"," ","2">>

\* main.py:45-52
SeedTaskDb ==
    << [task_id |-> 1, task_title |-> SeedTitle, task_desc |-> SeedDesc,
        is_finished |-> Some(FALSE)] >>

----------------------------------------------------------------------------
(* Responses *)

\* raise HTTPException(status_code, detail={"error": msg}), or a detail string
HTTPException(status_code, msg) ==
    [status |-> status_code, kind |-> "error", error |-> msg,
     data |-> <<>>, message |-> ""]

\* return {"status": "ok", "data": task}
OkTask(status_code, task) ==
    [status |-> status_code, kind |-> "task", error |-> "",
     data |-> <<task>>, message |-> ""]

\* return {"status": "ok", "data": [...]} with or without "message"
OkList(status_code, tasks, msg) ==
    [status |-> status_code, kind |-> "list", error |-> "",
     data |-> tasks, message |-> msg]

\* return None under status 204
NoContent ==
    [status |-> 204, kind |-> "empty", error |-> "", data |-> <<>>, message |-> ""]

NoResponse ==
    [status |-> 0, kind |-> "none", error |-> "", data |-> <<>>, message |-> ""]

----------------------------------------------------------------------------
(* Authentication: main.py:27-42 *)

\* main.py:27  APIKeyHeader(name="X-API-Key") with its default auto_error=True:
\* a missing or empty header raises 403 "Not authenticated" inside the
\* dependency, before validate_api_key's body runs.
api_key_header(header) ==
    IF header = None \/ ~Truthy(header[1])
    THEN [raised |-> TRUE, value |-> None,
          resp |-> HTTPException(403, "Not authenticated")]
    ELSE [raised |-> FALSE, value |-> header, resp |-> NoResponse]

\* main.py:29-30  Query(None, alias="api-key"): the parameter or None
api_key_query(query) == query

\* PyOr with the operands swapped: the query parameter first
PyOr_QueryFirst(a, b) == IF b # None /\ Truthy(b[1]) THEN b ELSE a

\* "a or b" on Optional[str]: a when a is a non-empty string, else b
PyOr(a, b) == IF a # None /\ Truthy(a[1]) THEN a ELSE b

\* main.py:32-42
validate_api_key(header, query) ==
    LET h == api_key_header(header)
        header_api_key == h.value
        query_api_key == api_key_query(query)
        api_key == PyOr(header_api_key, query_api_key)
    IN  IF h.raised THEN [ok |-> FALSE, resp |-> h.resp]
        ELSE IF api_key # Some(API_KEY)
        THEN [ok |-> FALSE, resp |-> HTTPException(403, "Invalid API Key")]
        ELSE [ok |-> TRUE, resp |-> NoResponse]

----------------------------------------------------------------------------
(* The store: main.py:64-68 and the handlers, main.py:84-161.  A handler   *)
(* is an operator from the list and its arguments to the list it leaves    *)
(* and the response it returns.                                            *)

TaskIds(db) == {db[i].task_id : i \in 1..Len(db)}

\* main.py:64-68  index of the first task with this id, 0 for None
find_task_by_id(db, task_id) ==
    LET hits == {i \in 1..Len(db) : db[i].task_id = task_id}
    IN  IF hits = {} THEN 0 ELSE Min(hits)

\* list.pop() in place of list.remove(x): drops the last element
ListRemove_Last(db, x) == SubSeq(db, 1, Len(db) - 1)

\* list.remove(x): drops the first element equal to x
ListRemove(db, x) ==
    LET i == Min({j \in 1..Len(db) : db[j] = x})
    IN  SubSeq(db, 1, i - 1) \o SubSeq(db, i + 1, Len(db))

\* TaskCreate with "is_finished: Optional[bool] = None"
TaskCreate_NoDefault(task_title, task_desc, raw_is_finished) ==
    [task_title |-> task_title, task_desc |-> task_desc,
     is_finished |-> IF raw_is_finished = Absent THEN None
                     ELSE raw_is_finished[1]]

\* main.py:54-57  TaskCreate: is_finished defaults to False when absent
TaskCreate(task_title, task_desc, raw_is_finished) ==
    [task_title |-> task_title, task_desc |-> task_desc,
     is_finished |-> IF raw_is_finished = Absent THEN Some(FALSE)
                     ELSE raw_is_finished[1]]

\* main.py:59-62  TaskUpdate: each field a value or None
TaskUpdate(task_title, task_desc, is_finished) ==
    [task_title |-> task_title, task_desc |-> task_desc,
     is_finished |-> is_finished]

\* get_task_v1 reading the list by position: task_db[task_id - 1]
get_task_v1_ByIndex(db, task_id) ==
    IF task_id \in 1..Len(db)
    THEN [db |-> db, resp |-> OkTask(200, db[task_id])]
    ELSE [db |-> db, resp |-> HTTPException(404, "Task not found")]

\* main.py:84-91
get_task_v1(db, task_id) ==
    LET i == find_task_by_id(db, task_id)
    IN  IF i # 0 THEN [db |-> db, resp |-> OkTask(200, db[i])]
        ELSE [db |-> db, resp |-> HTTPException(404, "Task not found")]

\* main.py:94-101
get_task_v2(db, task_id) ==
    LET i == find_task_by_id(db, task_id)
    IN  IF i # 0 THEN [db |-> db, resp |-> OkTask(200, db[i])]
        ELSE [db |-> db, resp |-> HTTPException(404, "Task not found")]

\* the create validator without strip(): "not task.task_title or ..."
create_invalid_NoStrip(task) ==
    ~Truthy(task.task_title) \/ ~Truthy(task.task_desc)

\* the create validator looking at the title alone
create_invalid_TitleOnly(task) ==
    ~Truthy(strip(task.task_title))

\* main.py:105  the create validator's condition
create_invalid(task) ==
    ~Truthy(strip(task.task_title)) \/ ~Truthy(strip(task.task_desc))

\* the id from the length of the list: len(task_db) + 1
new_task_id_Len(db) == Len(db) + 1

\* the id without the increment: max(...) alone
new_task_id_NoIncrement(db) ==
    IF db # <<>> THEN Max({db[i].task_id : i \in 1..Len(db)}) ELSE 1

\* main.py:111
new_task_id(db) ==
    IF db # <<>> THEN Max(TaskIds(db)) + 1 ELSE 1

\* create_task_v2 with task_db.insert(0, new_task) in place of append
create_task_v2_Prepend(db, task) ==
    IF create_invalid(task)
    THEN [db |-> db,
          resp |-> HTTPException(400, "Task title and description cannot be empty")]
    ELSE LET new_task == [task_id |-> new_task_id(db),
                          task_title |-> task.task_title,
                          task_desc |-> task.task_desc,
                          is_finished |-> task.is_finished]
         IN  [db |-> <<new_task>> \o db, resp |-> OkTask(201, new_task)]

\* main.py:103-119
create_task_v2(db, task) ==
    IF create_invalid(task)
    THEN [db |-> db,
          resp |-> HTTPException(400, "Task title and description cannot be empty")]
    ELSE LET new_task == [task_id |-> new_task_id(db),
                          task_title |-> task.task_title,
                          task_desc |-> task.task_desc,
                          is_finished |-> task.is_finished]
         IN  [db |-> Append(db, new_task), resp |-> OkTask(201, new_task)]

\* update_title storing the stripped title
update_title_Stripped(t, task) ==
    IF task.task_title # None
    THEN IF ~Truthy(strip(task.task_title[1]))
         THEN [raised |-> TRUE, task |-> t,
               resp |-> HTTPException(400, "Task title cannot be empty")]
         ELSE [raised |-> FALSE,
               task |-> [t EXCEPT !.task_title = strip(task.task_title[1])],
               resp |-> NoResponse]
    ELSE [raised |-> FALSE, task |-> t, resp |-> NoResponse]

\* main.py:129-134  returns the task after the title step, or the 400
update_title(t, task) ==
    IF task.task_title # None
    THEN IF ~Truthy(strip(task.task_title[1]))
         THEN [raised |-> TRUE, task |-> t,
               resp |-> HTTPException(400, "Task title cannot be empty")]
         ELSE [raised |-> FALSE,
               task |-> [t EXCEPT !.task_title = task.task_title[1]],
               resp |-> NoResponse]
    ELSE [raised |-> FALSE, task |-> t, resp |-> NoResponse]

\* main.py:135-140
update_desc(t, task) ==
    IF task.task_desc # None
    THEN IF ~Truthy(strip(task.task_desc[1]))
         THEN [raised |-> TRUE, task |-> t,
               resp |-> HTTPException(400, "Task description cannot be empty")]
         ELSE [raised |-> FALSE,
               task |-> [t EXCEPT !.task_desc = task.task_desc[1]],
               resp |-> NoResponse]
    ELSE [raised |-> FALSE, task |-> t, resp |-> NoResponse]

\* update_finished without the "is not None" test
update_finished_Always(t, task) ==
    [t EXCEPT !.is_finished = task.is_finished]

\* main.py:141-142
update_finished(t, task) ==
    IF task.is_finished # None
    THEN [t EXCEPT !.is_finished = task.is_finished]
    ELSE t

\* update_task_v2 with the validators ahead of the lookup
update_task_v2_ValidateFirst(db, task_id, task) ==
    LET i == find_task_by_id(db, task_id)
        bad_title == task.task_title # None /\ ~Truthy(strip(task.task_title[1]))
        bad_desc == task.task_desc # None /\ ~Truthy(strip(task.task_desc[1]))
    IN  IF bad_title
        THEN [db |-> db, resp |-> HTTPException(400, "Task title cannot be empty")]
        ELSE IF bad_desc
        THEN [db |-> db,
              resp |-> HTTPException(400, "Task description cannot be empty")]
        ELSE IF i = 0
        THEN [db |-> db, resp |-> HTTPException(404, "Task not found")]
        ELSE LET t == update_finished(update_desc(update_title(db[i], task).task,
                                                  task).task, task)
             IN  [db |-> [db EXCEPT ![i] = t], resp |-> OkTask(200, t)]

\* main.py:121-144  the dict is changed in place, field by field, so a raise
\* in a later field leaves the earlier writes in the list
update_task_v2(db, task_id, task) ==
    LET i == find_task_by_id(db, task_id)
    IN  IF i = 0
        THEN [db |-> db, resp |-> HTTPException(404, "Task not found")]
        ELSE LET s1 == update_title(db[i], task)
                 s2 == update_desc(s1.task, task)
                 s3 == update_finished(s2.task, task)
             IN  IF s1.raised
                 THEN [db |-> [db EXCEPT ![i] = s1.task], resp |-> s1.resp]
                 ELSE IF s2.raised
                 THEN [db |-> [db EXCEPT ![i] = s2.task], resp |-> s2.resp]
                 ELSE [db |-> [db EXCEPT ![i] = s3], resp |-> OkTask(200, s3)]

\* delete_task_v2 without the task_db.remove(task)
delete_task_v2_NoRemove(db, task_id) ==
    LET i == find_task_by_id(db, task_id)
    IN  IF i = 0
        THEN [db |-> db, resp |-> HTTPException(404, "Task not found")]
        ELSE [db |-> db, resp |-> NoContent]

\* main.py:146-155
delete_task_v2(db, task_id) ==
    LET i == find_task_by_id(db, task_id)
    IN  IF i = 0
        THEN [db |-> db, resp |-> HTTPException(404, "Task not found")]
        ELSE [db |-> ListRemove(db, db[i]), resp |-> NoContent]

\* get_all_tasks_v2 without the branch for the empty list
get_all_tasks_v2_NoMarker(db) ==
    [db |-> db, resp |-> OkList(200, db, "")]

\* main.py:157-161
get_all_tasks_v2(db) ==
    IF db = <<>>
    THEN [db |-> db, resp |-> OkList(200, <<>>, "No tasks available")]
    ELSE [db |-> db, resp |-> OkList(200, db, "")]

----------------------------------------------------------------------------
(* Requests.  Every route sits behind Depends(validate_api_key),           *)
(* main.py:71-81: the dependency runs first and its HTTPException ends     *)
(* the request before the handler is called.                               *)

\* values a client may put in the X-API-Key header or the api-key parameter
Credentials == {None, Some(<<>>), Some(API_KEY), Some(WRONG_KEY)}

\* values of task_title and task_desc in a body: a whitespace-only and an
\* empty string, and strings that strip() leaves non-empty
TitleInputs == {<<" ">>, <<" ", "T">>}
DescInputs == {<<>>, <<"D", " ">>}

\* values of is_finished in a create body: absent, true, false
RawFinishedInputs == {Absent, Some(Some(TRUE)), Some(Some(FALSE))}

\* values of is_finished in a parsed TaskUpdate
OptFinishedInputs == {None, Some(TRUE), Some(FALSE)}

Opt(S) == {None} \cup {Some(x) : x \in S}

\* The inputs of a specification: the <<header, query>> pairs and the body
\* fields its requests are drawn from.
\* StoreInputs: the secret in the header, every body.
StoreInputs ==
    [creds |-> {<<Some(API_KEY), None>>},
     titles |-> TitleInputs,
     descs |-> DescInputs,
     raw_finished |-> RawFinishedInputs,
     opt_titles |-> Opt(TitleInputs),
     opt_descs |-> Opt(DescInputs),
     opt_finished |-> OptFinishedInputs]

\* AuthInputs: every pair of credentials, a good and a bad title.
AuthInputs ==
    [creds |-> Credentials \X Credentials,
     titles |-> {<<" ">>, <<" ", "T">>},
     descs |-> {<<"D", " ">>},
     raw_finished |-> {Absent},
     opt_titles |-> {Some(<<" ">>), Some(<<" ", "T">>)},
     opt_descs |-> {None},
     opt_finished |-> {None}]

\* task ids a client asks for
IdInputs == 1..MaxId

NoBody == [task_title |-> None, task_desc |-> None, is_finished |-> None]

NoRequest ==
    [route |-> "none", header |-> None, query |-> None, task_id |-> 0,
     body |-> NoBody]

Req(route, header, query, task_id, body) ==
    [route |-> route, header |-> header, query |-> query, task_id |-> task_id,
     body |-> body]

\* Serve with the handler run whatever the dependency says
Serve_HandlerFirst(req, out) ==
    LET auth == validate_api_key(req.header, req.query)
    IN  /\ request' = req
        /\ task_db' = out.db
        /\ response' = IF auth.ok THEN out.resp ELSE auth.resp
        /\ ever_ids' = ever_ids \cup TaskIds(task_db')
        /\ created_run' =
              IF req.route = "create_task_v2" /\ response'.status = 201
              THEN Append(created_run, response'.data[1].task_id)
              ELSE IF req.route = "delete_task_v2" /\ response'.status = 204
              THEN <<>>
              ELSE created_run

\* main.py:71-81  One request, start to end: the dependency, then the
\* handler's outcome out = [db, resp]; the history variables follow what
\* happened.
Serve(req, out) ==
    LET auth == validate_api_key(req.header, req.query)
    IN  /\ request' = req
        /\ IF auth.ok
           THEN task_db' = out.db /\ response' = out.resp
           ELSE task_db' = task_db /\ response' = auth.resp
        /\ ever_ids' = ever_ids \cup TaskIds(task_db')
        /\ created_run' =
              IF req.route = "create_task_v2" /\ response'.status = 201
              THEN Append(created_run, response'.data[1].task_id)
              ELSE IF req.route = "delete_task_v2" /\ response'.status = 204
              THEN <<>>
              ELSE created_run

Threads == 1..NumThreads

\* addresses: one per dict in the list and one per thread
Addrs == 1..(MaxTasks + 1 + NumThreads)

NoTask == [task_id |-> 0, task_title |-> <<>>, task_desc |-> <<>>,
           is_finished |-> None]

Init ==
    /\ task_db = SeedTaskDb
    /\ request = NoRequest
    /\ response = NoResponse
    /\ ever_ids = TaskIds(SeedTaskDb)
    /\ created_run = <<>>
    /\ db_refs = <<1>>
    /\ heap = [a \in Addrs |-> IF a = 1 THEN SeedTaskDb[1] ELSE NoTask]
    /\ pc = [w \in Threads |-> "idle"]
    /\ thread_req = [w \in Threads |-> NoRequest]
    /\ thread_ref = [w \in Threads |-> 0]
    /\ thread_resp = [w \in Threads |-> NoResponse]

\* GET /apiv1/tasks/{task_id}
GetTaskV1(in) ==
    \E c \in in.creds, id \in IdInputs :
        /\ Serve(Req("get_task_v1", c[1], c[2], id, NoBody),
                 get_task_v1(task_db, id))
        /\ UNCHANGED conc_vars

\* GET /apiv2/tasks/{task_id}
GetTaskV2(in) ==
    \E c \in in.creds, id \in IdInputs :
        /\ Serve(Req("get_task_v2", c[1], c[2], id, NoBody),
                 get_task_v2(task_db, id))
        /\ UNCHANGED conc_vars

\* POST /apiv2/tasks.  The model's bounds stop a create that would append.
CreateTaskV2(in) ==
    \E c \in in.creds, t \in in.titles, d \in in.descs, f \in in.raw_finished :
        LET task == TaskCreate(t, d, f)
            body == [task_title |-> t, task_desc |-> d, is_finished |-> f]
        IN  /\ (validate_api_key(c[1], c[2]).ok /\ ~create_invalid(task))
                => (Len(task_db) < MaxTasks /\ new_task_id(task_db) <= MaxId)
            /\ Serve(Req("create_task_v2", c[1], c[2], 0, body),
                     create_task_v2(task_db, task))
            /\ UNCHANGED conc_vars

\* PATCH /apiv2/tasks/{task_id}
UpdateTaskV2(in) ==
    \E c \in in.creds, id \in IdInputs,
       t \in in.opt_titles, d \in in.opt_descs, f \in in.opt_finished :
        LET task == TaskUpdate(t, d, f)
        IN  /\ Serve(Req("update_task_v2", c[1], c[2], id, task),
                     update_task_v2(task_db, id, task))
            /\ UNCHANGED conc_vars

\* DELETE /apiv2/tasks/{task_id}
DeleteTaskV2(in) ==
    \E c \in in.creds, id \in IdInputs :
        /\ Serve(Req("delete_task_v2", c[1], c[2], id, NoBody),
                 delete_task_v2(task_db, id))
        /\ UNCHANGED conc_vars

\* GET /apiv2/tasks
GetAllTasksV2(in) ==
    \E c \in in.creds :
        /\ Serve(Req("get_all_tasks_v2", c[1], c[2], 0, NoBody),
                 get_all_tasks_v2(task_db))
        /\ UNCHANGED conc_vars

\* Requests served one at a time, each carrying the secret in the header.
Next ==
    \/ GetTaskV1(StoreInputs)
    \/ GetTaskV2(StoreInputs)
    \/ CreateTaskV2(StoreInputs)
    \/ UpdateTaskV2(StoreInputs)
    \/ DeleteTaskV2(StoreInputs)
    \/ GetAllTasksV2(StoreInputs)

Spec == Init /\ [][Next]_vars

\* Requests served one at a time, under every pair of credentials.
NextAuth ==
    \/ GetTaskV1(AuthInputs)
    \/ GetTaskV2(AuthInputs)
    \/ CreateTaskV2(AuthInputs)
    \/ UpdateTaskV2(AuthInputs)
    \/ DeleteTaskV2(AuthInputs)
    \/ GetAllTasksV2(AuthInputs)

SpecAuth == Init /\ [][NextAuth]_vars

----------------------------------------------------------------------------
(* Concurrent requests.  The handlers are plain "def" functions, which     *)
(* FastAPI runs in a pool of threads: two requests' handlers interleave    *)
(* between statements, and main.py takes no lock.  A step below is one     *)
(* statement that reads or writes task_db or one of its dicts, with the    *)
(* thread-local statements before it.                                      *)

\* the list as its handlers read it: the dict behind each reference
conc_task_db == [i \in 1..Len(db_refs) |-> heap[db_refs[i]]]

\* one create body and one update body (a new title), both valid
ConcInputs ==
    [creds |-> {<<Some(API_KEY), None>>},
     titles |-> {<<" ", "T">>},
     descs |-> {<<"D", " ">>},
     raw_finished |-> {Absent},
     opt_titles |-> {Some(<<" ", "T">>)},
     opt_descs |-> {None},
     opt_finished |-> {None}]

\* an unhandled exception in a handler: Starlette answers 500
InternalServerError ==
    [status |-> 500, kind |-> "error", error |-> "Internal Server Error",
     data |-> <<>>, message |-> ""]

Range(f) == {f[x] : x \in DOMAIN f}

\* a dict no list and no thread refers to is gone
Collect(h, refs, locals) ==
    [a \in Addrs |-> IF a \in Range(refs) \cup Range(locals) THEN h[a] ELSE NoTask]

\* where a new dict is put
FreeAddr == Min({a \in Addrs : a \notin Range(db_refs) \cup Range(thread_ref)})

\* the thread's request ends with this response
Finish(w, req, resp) ==
    /\ pc' = [pc EXCEPT ![w] = "idle"]
    /\ thread_req' = [thread_req EXCEPT ![w] = req]
    /\ thread_resp' = [thread_resp EXCEPT ![w] = resp]
    /\ thread_ref' = [thread_ref EXCEPT ![w] = 0]

\* the thread's request goes on at statement at, holding the dict at address a
Goto(w, req, at, a) ==
    /\ pc' = [pc EXCEPT ![w] = at]
    /\ thread_req' = [thread_req EXCEPT ![w] = req]
    /\ thread_ref' = [thread_ref EXCEPT ![w] = a]
    /\ UNCHANGED thread_resp

\* main.py:104-117  the dependency, the validator, the read of the largest
\* id and the new dict.  The model's bounds stop a create when the list and
\* the creates under way already hold more than MaxTasks tasks.
ConcCreateBegin(w) ==
    /\ pc[w] = "idle"
    /\ \E c \in ConcInputs.creds, t \in ConcInputs.titles,
          d \in ConcInputs.descs, f \in ConcInputs.raw_finished :
        LET task == TaskCreate(t, d, f)
            req == Req("create_task_v2", c[1], c[2], 0,
                       [task_title |-> t, task_desc |-> d, is_finished |-> f])
            auth == validate_api_key(c[1], c[2])
            new_task == [task_id |-> new_task_id(conc_task_db),
                         task_title |-> task.task_title,
                         task_desc |-> task.task_desc,
                         is_finished |-> task.is_finished]
            appending == Cardinality({v \in Threads : pc[v] = "create_append"})
        IN  IF ~auth.ok
            THEN Finish(w, req, auth.resp) /\ UNCHANGED <<db_refs, heap>>
            ELSE IF create_invalid(task)
            THEN /\ Finish(w, req, create_task_v2(conc_task_db, task).resp)
                 /\ UNCHANGED <<db_refs, heap>>
            ELSE /\ Len(db_refs) + appending <= MaxTasks
                 /\ new_task_id(conc_task_db) <= MaxId
                 /\ Goto(w, req, "create_append", FreeAddr)
                 /\ heap' = [heap EXCEPT ![FreeAddr] = new_task]
                 /\ UNCHANGED db_refs
    /\ UNCHANGED seq_vars

\* main.py:118-119
ConcCreateAppend(w) ==
    /\ pc[w] = "create_append"
    /\ db_refs' = Append(db_refs, thread_ref[w])
    /\ Finish(w, thread_req[w], OkTask(201, heap[thread_ref[w]]))
    /\ UNCHANGED <<heap, seq_vars>>

\* the dependency and find_task_by_id, main.py:64-68: the request ends with
\* 403 or 404, or goes on at next_pc holding the dict that was found
ConcFind(w, req, next_pc) ==
    LET auth == validate_api_key(req.header, req.query)
        i == find_task_by_id(conc_task_db, req.task_id)
    IN  /\ pc[w] = "idle"
        /\ IF ~auth.ok
           THEN Finish(w, req, auth.resp)
           ELSE IF i = 0
           THEN Finish(w, req, HTTPException(404, "Task not found"))
           ELSE Goto(w, req, next_pc, db_refs[i])

\* main.py:123-127
ConcUpdateFind(w) ==
    \E c \in ConcInputs.creds, id \in IdInputs, t \in ConcInputs.opt_titles,
       d \in ConcInputs.opt_descs, f \in ConcInputs.opt_finished :
        /\ ConcFind(w, Req("update_task_v2", c[1], c[2], id, TaskUpdate(t, d, f)),
                    "update_title")
        /\ UNCHANGED <<db_refs, heap, seq_vars>>

\* main.py:129-134
ConcUpdateTitle(w) ==
    /\ pc[w] = "update_title"
    /\ LET a == thread_ref[w]
           s == update_title(heap[a], thread_req[w].body)
       IN  IF s.raised
           THEN /\ Finish(w, thread_req[w], s.resp)
                /\ heap' = Collect(heap, db_refs, thread_ref')
           ELSE /\ Goto(w, thread_req[w], "update_desc", a)
                /\ heap' = [heap EXCEPT ![a] = s.task]
    /\ UNCHANGED <<db_refs, seq_vars>>

\* main.py:135-140
ConcUpdateDesc(w) ==
    /\ pc[w] = "update_desc"
    /\ LET a == thread_ref[w]
           s == update_desc(heap[a], thread_req[w].body)
       IN  IF s.raised
           THEN /\ Finish(w, thread_req[w], s.resp)
                /\ heap' = Collect(heap, db_refs, thread_ref')
           ELSE /\ Goto(w, thread_req[w], "update_finished", a)
                /\ heap' = [heap EXCEPT ![a] = s.task]
    /\ UNCHANGED <<db_refs, seq_vars>>

\* main.py:141-144
ConcUpdateFinished(w) ==
    /\ pc[w] = "update_finished"
    /\ LET a == thread_ref[w]
           t == update_finished(heap[a], thread_req[w].body)
       IN  /\ Finish(w, thread_req[w], OkTask(200, t))
           /\ heap' = Collect([heap EXCEPT ![a] = t], db_refs, thread_ref')
    /\ UNCHANGED <<db_refs, seq_vars>>

\* main.py:148-152
ConcDeleteFind(w) ==
    \E c \in ConcInputs.creds, id \in IdInputs :
        /\ ConcFind(w, Req("delete_task_v2", c[1], c[2], id, NoBody),
                    "delete_remove")
        /\ UNCHANGED <<db_refs, heap, seq_vars>>

\* main.py:154-155  list.remove(task) looks for the first element equal to
\* task and raises ValueError when there is none
ConcDeleteRemove(w) ==
    /\ pc[w] = "delete_remove"
    /\ LET task == heap[thread_ref[w]]
           hits == {i \in 1..Len(db_refs) : conc_task_db[i] = task}
           i == Min(hits)
       IN  IF hits = {}
           THEN /\ Finish(w, thread_req[w], InternalServerError)
                /\ UNCHANGED db_refs
           ELSE /\ Finish(w, thread_req[w], NoContent)
                /\ db_refs' = SubSeq(db_refs, 1, i - 1)
                                \o SubSeq(db_refs, i + 1, Len(db_refs))
    /\ heap' = Collect(heap, db_refs', thread_ref')
    /\ UNCHANGED seq_vars

NextConc ==
    \E w \in Threads :
        \/ ConcCreateBegin(w)
        \/ ConcCreateAppend(w)
        \/ ConcUpdateFind(w)
        \/ ConcUpdateTitle(w)
        \/ ConcUpdateDesc(w)
        \/ ConcUpdateFinished(w)
        \/ ConcDeleteFind(w)
        \/ ConcDeleteRemove(w)

SpecConc == Init /\ [][NextConc]_vars

----------------------------------------------------------------------------
(* Properties *)

Served == request.route # "none"

\* the last request was a create that appended a task
Created == request.route = "create_task_v2" /\ response.status = 201

\* how many tasks of db carry this id
Occurrences(db, id) == Cardinality({i \in 1..Len(db) : db[i].task_id = id})

\* C1: with requests served one at a time from the seeded store, no two
\* tasks in task_db have the same task_id, whatever requests were served.
C1_UniqueTaskIds ==
    \A i, j \in 1..Len(task_db) :
        i # j => task_db[i].task_id # task_db[j].task_id

\* C1 witness: a create has appended a task after the seeded task was
\* deleted, so the list holds two tasks and id 1 is not among them.
C1_Witness ==
    /\ Created
    /\ Len(task_db) = 2
    /\ 1 \notin TaskIds(task_db)

\* C2: when mutating requests run concurrently each scan-then-mutate is one
\* atomic step, so two creates never append two tasks with the same task_id.
\* Stated of the list the threads share; the code takes no lock.
C2_ConcurrentCreatesDistinctIds ==
    \A i, j \in 1..Len(db_refs) :
        i # j => heap[db_refs[i]].task_id # heap[db_refs[j]].task_id

\* C3: every task in task_db has a task_title and a task_desc that are
\* non-empty after strip(), in every reachable state.
C3_TitlesAndDescsNonEmpty ==
    \A i \in 1..Len(task_db) :
        /\ strip(task_db[i].task_title) # <<>>
        /\ strip(task_db[i].task_desc) # <<>>

\* C3 witness: a create or an update with a whitespace-only title or an empty
\* description has just been turned down, and the list holds a created task.
C3_Witness ==
    /\ request.route \in {"create_task_v2", "update_task_v2"}
    /\ response.status = 400
    /\ Len(task_db) = 2

\* C4 as stated: the id a successful create returns was never in task_db
\* before, deleted tasks included.
C4_IdNeverReused ==
    [][Created' => response'.data[1].task_id \notin ever_ids]_vars

\* C4 as amended: the id a successful create returns is larger than the id
\* of every task in task_db at that moment (so it differs from all of them);
\* it may be the id of a task deleted earlier.
C4_IdAboveAllStored ==
    [][Created' => \A id \in TaskIds(task_db) : id < response'.data[1].task_id]_vars

\* C4 witness: a create has returned id 1, which it does only on an empty
\* list, that is after the seeded task with id 1 was deleted.
C4_Witness ==
    /\ Created
    /\ response.data[1].task_id = 1

\* C5: the ids of the creates that succeeded since the last delete are
\* strictly increasing in the order of the creates, and each of them is the
\* id of exactly one task in task_db.
C5_RunOfCreatesIncreasing ==
    /\ \A i, j \in 1..Len(created_run) : i < j => created_run[i] < created_run[j]
    /\ \A i \in 1..Len(created_run) : Occurrences(task_db, created_run[i]) = 1

\* C5 witness: two creates have succeeded with no delete between them, and
\* the last request, served after them, was not a create.
C5_Witness ==
    /\ Len(created_run) = 2
    /\ request.route = "update_task_v2"

\* C6: authentication succeeds when the secret is in the X-API-Key header
\* alone, succeeds when it is in the api-key parameter alone, and a request
\* with the secret in neither channel is turned down with 403.  (The claim
\* also names the 403's message; the formula leaves it out, so that what
\* violates it is a request the claim says succeeds.)
C6_SecretInHeaderOrQuery ==
    Served =>
        /\ (request.header = Some(API_KEY) /\ request.query = None)
              => response.status # 403
        /\ (request.header = None /\ request.query = Some(API_KEY))
              => response.status # 403
        /\ (request.header # Some(API_KEY) /\ request.query # Some(API_KEY))
              => response.status = 403

\* C7: with a non-empty header credential X and a query credential Y other
\* than X, authentication succeeds exactly when X is the secret, and
\* otherwise the response is 403 "Invalid API Key", also when Y is the secret.
C7_HeaderPrecedence ==
    (/\ Served
     /\ request.header # None
     /\ request.header # Some(<<>>)
     /\ request.query # request.header)
        => IF request.header = Some(API_KEY)
           THEN response.status # 403
           ELSE response.status = 403 /\ response.error = "Invalid API Key"

\* C7 witness: a request with a wrong header credential and the secret in
\* the query parameter was turned down.
C7_Witness ==
    /\ request.header = Some(WRONG_KEY)
    /\ request.query = Some(API_KEY)
    /\ response.status = 403

\* C8: on every route a request without the secret in either channel gets
\* 403, and a request that gets 403 leaves task_db as it was.
C8_NoEffectWithoutCredential ==
    [][/\ (request'.header # Some(API_KEY) /\ request'.query # Some(API_KEY))
            => response'.status = 403
       /\ response'.status = 403 => task_db' = task_db]_vars

\* C8 witness: a delete of a task that is in the list, and a create with a
\* valid body, were turned down with 403; here the delete.
C8_Witness ==
    /\ request.route = "delete_task_v2"
    /\ response.status = 403
    /\ request.task_id \in TaskIds(task_db)

\* C9: a create whose title or description is empty after strip() gets 400
\* and leaves task_db as it was, so the id of the next create is the same.
C9_RejectedCreateLeavesStore ==
    [][(/\ request'.route = "create_task_v2"
        /\ \/ strip(request'.body.task_title) = <<>>
           \/ strip(request'.body.task_desc) = <<>>)
          => /\ response'.status = 400
             /\ task_db' = task_db
             /\ new_task_id(task_db') = new_task_id(task_db)]_vars

\* C9 witness: a create with a good title and an empty description was
\* turned down.
C9_Witness ==
    /\ request.route = "create_task_v2"
    /\ request.body.task_title = <<" ", "T">>
    /\ request.body.task_desc = <<>>
    /\ response.status = 400

\* C10: an update of an id that is not in task_db gets 404 "Task not found"
\* whatever its body, and leaves task_db as it was.
C10_UpdateMissingIs404 ==
    [][(/\ request'.route = "update_task_v2"
        /\ request'.task_id \notin TaskIds(task_db))
          => /\ response'.status = 404
             /\ response'.error = "Task not found"
             /\ task_db' = task_db]_vars

\* C10 witness: an update with a whitespace-only title and an empty
\* description, of an id that is not in the list, got 404.
C10_Witness ==
    /\ request.route = "update_task_v2"
    /\ request.body.task_title = Some(<<" ">>)
    /\ request.body.task_desc = Some(<<>>)
    /\ request.task_id \notin TaskIds(task_db)
    /\ response.status = 404

\* ids that were in task_db, were deleted, and were not assigned again since
\* (update and the reads take no task out of the list)
GoneIds == ever_ids \ TaskIds(task_db)

\* C11: an update of an id that is in task_db, with task_title, task_desc
\* and is_finished all None, gets 200 with that task, and the task and the
\* whole list are what they were before the request.
C11_EmptyUpdateIsNoOp ==
    [][(/\ request'.route = "update_task_v2"
        /\ request'.task_id \in TaskIds(task_db)
        /\ request'.body = NoBody)
          => /\ response'.status = 200
             /\ response'.data
                  = <<task_db[find_task_by_id(task_db, request'.task_id)]>>
             /\ task_db' = task_db]_vars

\* C11 witness: an update with no field, of a task whose fields an earlier
\* update had changed, got 200; the list holds two tasks.
C11_Witness ==
    /\ request.route = "update_task_v2"
    /\ request.body = NoBody
    /\ response.status = 200
    /\ response.data[1].is_finished = Some(TRUE)
    /\ Len(task_db) = 2

\* C12: a delete that gets 204 takes its id out of task_db, and until a
\* create assigns that id again a read of it on the v1 route, a read of it on
\* the v2 route and another delete of it get 404 "Task not found".
C12_DeletedIdIs404 ==
    [][/\ (request'.route = "delete_task_v2" /\ response'.status = 204)
            => request'.task_id \in GoneIds'
       /\ (/\ request'.route \in {"get_task_v1", "get_task_v2", "delete_task_v2"}
           /\ request'.task_id \in GoneIds)
            => /\ response'.status = 404
               /\ response'.error = "Task not found"
               /\ request'.task_id \in GoneIds']_vars

\* C12 witness: a read on the v1 route of an id that was deleted, while
\* another task is in the list, got 404.
C12_Witness ==
    /\ request.route = "get_task_v1"
    /\ request.task_id \in GoneIds
    /\ response.status = 404
    /\ task_db # <<>>

\* C13: the list request gets 200 with the tasks of task_db in their order
\* in the list; the message "No tasks available" comes with it exactly when
\* task_db is empty, and then the data is the empty sequence.
C13_ListReturnsStore ==
    request.route = "get_all_tasks_v2"
        => /\ response.status = 200
           /\ response.kind = "list"
           /\ response.data = task_db
           /\ (response.message = "No tasks available") <=> (task_db = <<>>)
           /\ response.message \in {"", "No tasks available"}

\* C13 witness: the list request on the list emptied by a delete.
C13_Witness ==
    /\ request.route = "get_all_tasks_v2"
    /\ task_db = <<>>
    /\ response.message = "No tasks available"

\* C14: a request on the v1 route, under any credentials, leaves task_db as
\* it was, and when it is let in it gets what the v2 read of the same id
\* gets on the same list.
C14_V1ReadOnlySameAsV2 ==
    [][request'.route = "get_task_v1"
          => /\ task_db' = task_db
             /\ response'.status # 403
                  => response' = get_task_v2(task_db, request'.task_id).resp]_vars

\* C14 witness: a v1 read of id 2 got the task, in a list whose first task
\* is not the seeded one.
C14_Witness ==
    /\ request.route = "get_task_v1"
    /\ request.task_id = 2
    /\ response.status = 200
    /\ 1 \notin TaskIds(task_db)

\* C15: an update that gets 400 leaves task_db as it was: no field of the
\* task is overwritten before every supplied field has been validated.
C15_RejectedUpdateLeavesStore ==
    [][(request'.route = "update_task_v2" /\ response'.status = 400)
          => task_db' = task_db]_vars

\* the id create is to assign on this list, written out
ExpectedId(db) ==
    IF Len(db) = 0 THEN 1
    ELSE 1 + (CHOOSE m \in TaskIds(db) : \A x \in TaskIds(db) : x <= m)

\* C16: a create that gets 201 returns a task whose id is 1 + the largest id
\* in task_db, or 1 on the empty list, whose title and description are the
\* body's and whose is_finished is the body's, or False when the body has
\* none; task_db is the old list with that task appended; on the seeded list
\* the id is 2.
C16_CreateAppendsNextId ==
    [][Created' =>
         LET new_task == response'.data[1]
             body == request'.body
         IN  /\ new_task.task_id = ExpectedId(task_db)
             /\ new_task.task_title = body.task_title
             /\ new_task.task_desc = body.task_desc
             /\ new_task.is_finished
                  = (IF body.is_finished = Absent THEN Some(FALSE)
                     ELSE body.is_finished[1])
             /\ task_db' = Append(task_db, new_task)
             /\ task_db = SeedTaskDb => new_task.task_id = 2]_vars

\* C16 witness: a create without is_finished on the seeded list returned
\* id 2.
C16_Witness ==
    /\ Created
    /\ request.body.is_finished = Absent
    /\ response.data[1].task_id = 2
    /\ Len(task_db) = 2
    /\ task_db[1] = SeedTaskDb[1]

\* C17: an update that gets 200 leaves the list as long as it was, leaves
\* every other task as it was, and leaves the task at its place with its id;
\* each of title, description and is_finished is the body's value where the
\* body has one and the old value where it has None; the task is returned.
C17_UpdateWritesSuppliedFields ==
    [][(request'.route = "update_task_v2" /\ response'.status = 200) =>
         LET i == find_task_by_id(task_db, request'.task_id)
             body == request'.body
             old == task_db[i]
             new == task_db'[i]
         IN  /\ i # 0
             /\ Len(task_db') = Len(task_db)
             /\ \A j \in 1..Len(task_db) : j # i => task_db'[j] = task_db[j]
             /\ new.task_id = old.task_id
             /\ new.task_title = (IF body.task_title # None
                                  THEN body.task_title[1] ELSE old.task_title)
             /\ new.task_desc = (IF body.task_desc # None
                                 THEN body.task_desc[1] ELSE old.task_desc)
             /\ new.is_finished = (IF body.is_finished # None
                                   THEN body.is_finished ELSE old.is_finished)
             /\ response'.data = <<new>>]_vars

\* C17 witness: an update with a description and is_finished but no title,
\* of the second of two tasks, got 200.
C17_Witness ==
    /\ request.route = "update_task_v2"
    /\ response.status = 200
    /\ request.body.task_title = None
    /\ request.body.task_desc = Some(<<"D", " ">>)
    /\ request.body.is_finished = Some(TRUE)
    /\ Len(task_db) = 2
    /\ task_db[2].task_id = request.task_id

\* C18: a delete of an id that is in task_db gets 204 and leaves the list
\* without the task of that id, one shorter, the other tasks as they were
\* and in their order; a delete of an id that is not in task_db gets 404
\* and leaves the list as it was.
C18_DeleteRemovesExactlyOne ==
    [][request'.route = "delete_task_v2" =>
         LET id == request'.task_id
         IN  IF id \in TaskIds(task_db)
             THEN /\ response'.status = 204
                  /\ Len(task_db') = Len(task_db) - 1
                  /\ task_db' = SelectSeq(task_db, LAMBDA t : t.task_id # id)
             ELSE /\ response'.status = 404
                  /\ response'.error = "Task not found"
                  /\ task_db' = task_db]_vars

\* C18 witness: the first of two tasks was deleted and the created one is
\* left.
C18_Witness ==
    /\ request.route = "delete_task_v2"
    /\ response.status = 204
    /\ request.task_id = 1
    /\ Len(task_db) = 1
    /\ task_db[1].task_title = <<" ", "T">>

\* C19: with requests served one at a time the tasks of task_db are in
\* strictly increasing order of task_id, so the largest id is the last
\* task's, and every id is a positive integer.
C19_IdsIncreaseAlongList ==
    /\ \A i, j \in 1..Len(task_db) :
          i < j => task_db[i].task_id < task_db[j].task_id
    /\ \A i \in 1..Len(task_db) : task_db[i].task_id >= 1
    /\ task_db # <<>> =>
          \A i \in 1..Len(task_db) :
              task_db[i].task_id <= task_db[Len(task_db)].task_id

\* C19 witness: after a delete of the seeded task and two creates, the list
\* holds ids 2 and 3.
C19_Witness ==
    /\ Len(task_db) = 2
    /\ task_db[1].task_id = 2
    /\ task_db[2].task_id = 3

\* C20: two deletes of the same id that run at the same time each end with
\* 204 or 404; none ends in an unhandled error from task_db.remove.
C20_ConcurrentDeletesNoError ==
    \A w \in Threads :
        (thread_req[w].route = "delete_task_v2" /\ pc[w] = "idle")
            => thread_resp[w].status \in {204, 404}

====
